---- MODULE Spec2Model ----
(***************************************************************************)
(* Model of src/lxc_runtime/runtime.cpp: a command-line front end that     *)
(* prints a banner or runs one external container command through the C    *)
(* library's system().                                                     *)
(*                                                                         *)
(* The program is sequential.  main() is cut into steps at the places an   *)
(* observer can tell apart: the writes to standard output, the call of     *)
(* system(), the creation of the child, the child's termination, the       *)
(* return of system() and the process exit.                                *)
(*                                                                         *)
(* system(cmd) is modelled by what the C library documents: it creates a   *)
(* child that executes /bin/sh -c cmd, waits for it, and returns the wait  *)
(* status, or -1 when the child could not be created.  The shell exits     *)
(* with 127 when the command is not found and 126 when it cannot be        *)
(* executed.                                                               *)
(***************************************************************************)
EXTENDS Integers, Sequences, FiniteSets, TLC

VARIABLES
    argv,         \* argv[1..] of the invocation (argv[0] left out); args = Len(argv) + 1
    pc,           \* position of the main thread
    out,          \* lines written to standard output, in order
    calls,        \* number of calls of system() made so far
    child,        \* state of the child process created by system()
    childExec,    \* what the child was asked to execute: [file, args]
    outcome,      \* how the launch went: "none", "forkfail", "notfound", "noexec", "exit", "signal"
    status,       \* wait status of the terminated child
    sysret,       \* value returned by system(); the caller discards it
    launchResult, \* value runtime() hands back to main
    exitCode      \* exit code of the program, NoExit while it runs

vars == <<argv, pc, out, calls, child, childExec, outcome, status, sysret,
          launchResult, exitCode>>

(* ---------------------------- bounds ----------------------------------- *)

\* Longest argument list (after argv[0]) that is explored.
MaxArgs == 2

(* ---------------------------- constants -------------------------------- *)

\* Arguments the invocation may carry: the two recognised options, a proper
\* prefix and an extension of "--use-runtime", another spelling of help,
\* and the empty string.
Tokens == {"--help", "--use-runtime", "--use", "--use-runtime2", "-h", ""}

\* Line 6.
HelpBanner == "LXC Continer prototip"

\* Lines 10 and 12 (the source has these two messages in Cyrillic; they are
\* written here in Latin transliteration).
StartMsg == "Zapusk v kontejnere"
StopMsg == "Ostanovka kontejnera"

\* Line 11: the one command string handed to system().
Command == "sudo lxc-start -f config/chroot.conf -n chroot -F"

\* system() runs its argument as: execl("/bin/sh", "sh", "-c", command).
ShellExec(cmd) == [file |-> "/bin/sh", args |-> <<"sh", "-c", cmd>>]

NoExec == [file |-> "", args |-> <<>>]

\* Return value of system() when no child could be created.
ForkFailed == -1

\* Placeholders before a value exists.
NoStatus == -2
NoExit == -1

\* Exit codes a process can terminate with, and signals that can kill one.
ExitCodes == 0 .. 255
Signals == {2, 9, 15}

\* Exit codes of the shell when the command is missing / not executable.
ShellNotFound == 127
ShellNoExec == 126

\* Wait status encoding and its decoding macros.
ExitedStatus(n) == n * 256
SignaledStatus(s) == s
WIFEXITED(st) == st >= 0 /\ st % 128 = 0
WEXITSTATUS(st) == (st \div 256) % 256
WIFSIGNALED(st) == st >= 0 /\ st % 128 # 0

\* runtime() is declared void: it hands nothing back to main.
Void == [kind |-> "void"]
NoResult == [kind |-> "none"]

\* Results the specification's Launch operation would yield.
Exited(n) == [kind |-> "Exited", code |-> n]
LaunchFailed == [kind |-> "LaunchFailed"]

RECURSIVE SeqsUpTo(_)
SeqsUpTo(n) ==
    IF n = 0 THEN {<<>>}
    ELSE LET S == SeqsUpTo(n - 1)
         IN  S \cup {Append(s, t) : s \in {x \in S : Len(x) = n - 1}, t \in Tokens}

ArgLists == SeqsUpTo(MaxArgs)

\* args as main receives it.
args == Len(argv) + 1

(* ---------------------------- initial state ----------------------------- *)

Init ==
    /\ argv \in ArgLists
    /\ pc = "main"
    /\ out = <<>>
    /\ calls = 0
    /\ child = "none"
    /\ childExec = NoExec
    /\ outcome = "none"
    /\ status = NoStatus
    /\ sysret = NoStatus
    /\ launchResult = NoResult
    /\ exitCode = NoExit

(* ---------------------------- main ------------------------------------- *)

\* Lines 16-19: no arguments; show_help() and return 0.
MainNoArgs ==
    /\ pc = "main"
    /\ args = 1
    /\ out' = Append(out, HelpBanner)
    /\ exitCode' = 0
    /\ pc' = "done"
    /\ UNCHANGED <<argv, calls, child, childExec, outcome, status, sysret, launchResult>>

\* Lines 21-24: action == "--use-runtime"; runtime() is entered.
MainUseRuntime ==
    /\ pc = "main"
    /\ args # 1
    /\ argv[1] = "--use-runtime"
    /\ pc' = "runtime"
    /\ UNCHANGED <<argv, out, calls, child, childExec, outcome, status, sysret,
                   launchResult, exitCode>>

\* Variant of MainHelp without the return after show_help(), so that the
\* --help branch runs on into the container launch.
MainHelp_FallsIntoRuntime ==
    /\ pc = "main"
    /\ args # 1
    /\ argv[1] # "--use-runtime"
    /\ argv[1] = "--help"
    /\ out' = Append(out, HelpBanner)
    /\ pc' = "runtime"
    /\ UNCHANGED <<argv, calls, child, childExec, outcome, status, sysret,
                   launchResult, exitCode>>

\* Lines 25-28: action == "--help"; show_help() and return 0.
MainHelp ==
    /\ pc = "main"
    /\ args # 1
    /\ argv[1] # "--use-runtime"
    /\ argv[1] = "--help"
    /\ out' = Append(out, HelpBanner)
    /\ exitCode' = 0
    /\ pc' = "done"
    /\ UNCHANGED <<argv, calls, child, childExec, outcome, status, sysret, launchResult>>

\* Variant of MainOther that looks for "--use-runtime" in every argument
\* instead of only the first.
MainOther_ScansAllArgs ==
    /\ pc = "main"
    /\ args # 1
    /\ argv[1] # "--use-runtime"
    /\ argv[1] # "--help"
    /\ IF \E i \in 1 .. Len(argv) : argv[i] = "--use-runtime"
       THEN pc' = "runtime" /\ UNCHANGED exitCode
       ELSE pc' = "done" /\ exitCode' = 0
    /\ UNCHANGED <<argv, out, calls, child, childExec, outcome, status, sysret, launchResult>>

\* Line 30: any other first argument falls through both tests; return 0.
MainOther ==
    /\ pc = "main"
    /\ args # 1
    /\ argv[1] # "--use-runtime"
    /\ argv[1] # "--help"
    /\ exitCode' = 0
    /\ pc' = "done"
    /\ UNCHANGED <<argv, out, calls, child, childExec, outcome, status, sysret, launchResult>>

(* ---------------------------- runtime ---------------------------------- *)

\* Line 10: the start message is written and flushed.
RuntimeBegin ==
    /\ pc = "runtime"
    /\ out' = Append(out, StartMsg)
    /\ pc' = "system"
    /\ UNCHANGED <<argv, calls, child, childExec, outcome, status, sysret,
                   launchResult, exitCode>>

\* Line 11: system() is called with the fixed command string.
SystemCall ==
    /\ pc = "system"
    /\ calls' = calls + 1
    /\ childExec' = ShellExec(Command)
    /\ pc' = "fork"
    /\ UNCHANGED <<argv, out, child, outcome, status, sysret, launchResult, exitCode>>

\* Inside system(): the child is created and starts the shell.
SystemForkOk ==
    /\ pc = "fork"
    /\ child' = "shell"
    /\ pc' = "wait"
    /\ UNCHANGED <<argv, out, calls, childExec, outcome, status, sysret,
                   launchResult, exitCode>>

\* Variant of SystemForkFail in which a child that could not be created is
\* reported like a command that exited with 0.
SystemForkFail_ReportsSuccess ==
    /\ pc = "fork"
    /\ outcome' = "forkfail"
    /\ sysret' = ExitedStatus(0)
    /\ pc' = "returned"
    /\ UNCHANGED <<argv, out, calls, child, childExec, status, launchResult, exitCode>>

\* Inside system(): no child could be created; system() returns -1.
SystemForkFail ==
    /\ pc = "fork"
    /\ outcome' = "forkfail"
    /\ sysret' = ForkFailed
    /\ pc' = "returned"
    /\ UNCHANGED <<argv, out, calls, child, childExec, status, launchResult, exitCode>>

\* The shell finds the command's executable and runs it.
ShellRun ==
    /\ child = "shell"
    /\ child' = "running"
    /\ UNCHANGED <<argv, pc, out, calls, childExec, outcome, status, sysret,
                   launchResult, exitCode>>

\* The shell does not find the executable (127) or may not execute it (126).
ShellFail ==
    /\ child = "shell"
    /\ \E o \in {"notfound", "noexec"} :
          /\ outcome' = o
          /\ status' = ExitedStatus(IF o = "notfound" THEN ShellNotFound ELSE ShellNoExec)
    /\ child' = "terminated"
    /\ UNCHANGED <<argv, pc, out, calls, childExec, sysret, launchResult, exitCode>>

\* The command terminates normally with exit code n.
ChildExit ==
    /\ child = "running"
    /\ \E n \in ExitCodes : status' = ExitedStatus(n)
    /\ outcome' = "exit"
    /\ child' = "terminated"
    /\ UNCHANGED <<argv, pc, out, calls, childExec, sysret, launchResult, exitCode>>

\* The child is killed by a signal.
ChildSignal ==
    /\ child \in {"shell", "running"}
    /\ \E s \in Signals : status' = SignaledStatus(s)
    /\ outcome' = "signal"
    /\ child' = "terminated"
    /\ UNCHANGED <<argv, pc, out, calls, childExec, sysret, launchResult, exitCode>>

\* Variant of SystemWait that polls instead of blocking: it returns at once,
\* whether or not the child has terminated.
SystemWait_NoBlock ==
    /\ pc = "wait"
    /\ sysret' = IF child = "terminated" THEN status ELSE ExitedStatus(0)
    /\ child' = IF child = "terminated" THEN "reaped" ELSE child
    /\ pc' = "returned"
    /\ UNCHANGED <<argv, out, calls, childExec, outcome, status, launchResult, exitCode>>

\* Inside system(): the wait for the child returns; system() returns the
\* wait status, which line 11 drops.
SystemWait ==
    /\ pc = "wait"
    /\ child = "terminated"
    /\ sysret' = status
    /\ child' = "reaped"
    /\ pc' = "returned"
    /\ UNCHANGED <<argv, out, calls, childExec, outcome, status, launchResult, exitCode>>

\* Variant of RuntimeEnd that starts the command again, once, when the
\* launch did not end with exit code 0.
RuntimeEnd_RetryOnFailure ==
    /\ pc = "returned"
    /\ out' = Append(out, StopMsg)
    /\ IF sysret # ExitedStatus(0) /\ calls < 2
       THEN /\ pc' = "system"
            /\ child' = "none"
            /\ UNCHANGED launchResult
       ELSE /\ pc' = "mainret"
            /\ launchResult' = Void
            /\ UNCHANGED child
    /\ UNCHANGED <<argv, calls, childExec, outcome, status, sysret, exitCode>>

\* Lines 12-13: the stop message is written; runtime() returns nothing.
RuntimeEnd ==
    /\ pc = "returned"
    /\ out' = Append(out, StopMsg)
    /\ launchResult' = Void
    /\ pc' = "mainret"
    /\ UNCHANGED <<argv, calls, child, childExec, outcome, status, sysret, exitCode>>

\* Variant of MainReturn that hands the command's result on as the
\* program's own exit code.
MainReturn_PropagatesStatus ==
    /\ pc = "mainret"
    /\ exitCode' = IF WIFEXITED(sysret) THEN WEXITSTATUS(sysret) ELSE 1
    /\ pc' = "done"
    /\ UNCHANGED <<argv, out, calls, child, childExec, outcome, status, sysret, launchResult>>

\* Line 30: return 0 after runtime().
MainReturn ==
    /\ pc = "mainret"
    /\ exitCode' = 0
    /\ pc' = "done"
    /\ UNCHANGED <<argv, out, calls, child, childExec, outcome, status, sysret, launchResult>>

Next ==
    \/ MainNoArgs
    \/ MainUseRuntime
    \/ MainHelp
    \/ MainOther
    \/ RuntimeBegin
    \/ SystemCall
    \/ SystemForkOk
    \/ SystemForkFail
    \/ ShellRun
    \/ ShellFail
    \/ ChildExit
    \/ ChildSignal
    \/ SystemWait
    \/ RuntimeEnd
    \/ MainReturn

Spec == Init /\ [][Next]_vars

\* The main thread always takes its next step, and the child terminates.
FairSpec == Spec /\ WF_vars(Next)

TypeOK ==
    /\ argv \in ArgLists
    /\ pc \in {"main", "runtime", "system", "fork", "wait", "returned", "mainret", "done"}
    /\ calls \in Nat
    /\ child \in {"none", "shell", "running", "terminated", "reaped"}
    /\ exitCode \in {NoExit} \cup ExitCodes

(* ---------------------------- derived notions --------------------------- *)

\* The run was started with "--use-runtime" as its first argument.
UsesRuntime == args > 1 /\ argv[1] = "--use-runtime"

\* The run was started with no argument or with "--help" first.
AsksHelp == args = 1 \/ argv[1] = "--help"

\* How often line s occurs in the output.
Count(s) == Cardinality({i \in DOMAIN out : out[i] = s})

\* The output a finished run has, as a function of the first argument alone.
OutFor(first) ==
    CASE first = "--use-runtime" -> <<StartMsg, StopMsg>>
      [] first = "--help" -> <<HelpBanner>>
      [] OTHER -> <<>>

\* The child is executed as "sh -c <one string>".
IsShellInvocation(e) == e.file = "/bin/sh" /\ Len(e.args) = 3 /\ e.args[2] = "-c"

\* Stage of the launch made by runtime(): before system() is called, inside
\* system() before the child exists, while system() waits for the child,
\* and after system() has returned.
Phase ==
    IF calls = 0 THEN "Idle"
    ELSE CASE pc = "fork" -> "Launching"
           [] pc = "wait" -> "Running"
           [] OTHER -> IF WIFEXITED(sysret) THEN "Exited" ELSE "Failed"

\* The exit code carried by the stage Exited.
PhaseCode == IF Phase = "Exited" THEN WEXITSTATUS(sysret) ELSE NoExit

Terminal == {"Exited", "Failed"}

StrictSteps ==
    {<<"Idle", "Launching">>, <<"Launching", "Running">>,
     <<"Running", "Exited">>, <<"Running", "Failed">>}

(* ---------------------------- claims ----------------------------------- *)

\* C1: a run with no argument, or with --help as first argument, never
\* calls system() and creates no child, and when it has finished it has
\* printed exactly the banner and its exit code is 0.
C1_HelpPrintsBannerExitsZero ==
    AsksHelp =>
        /\ calls = 0
        /\ child = "none"
        /\ pc \in {"main", "done"}
        /\ pc = "done" => (out = <<HelpBanner>> /\ exitCode = 0)

\* A finished --help run that also carried --use-runtime as second argument.
C1_Witness ==
    /\ pc = "done"
    /\ argv = <<"--help", "--use-runtime">>
    /\ out = <<HelpBanner>>
    /\ exitCode = 0

\* C2: a finished --use-runtime run whose command exited with a non-zero
\* code has a non-zero exit code itself.
C2_NonZeroExitSurfaced ==
    (pc = "done" /\ UsesRuntime /\ WIFEXITED(sysret) /\ WEXITSTATUS(sysret) # 0)
        => exitCode # 0

\* C3: a finished --use-runtime run has called system() once, with the
\* fixed command string, and its exit code is 0 whatever became of the
\* child: exit 0, exit non-zero, killed, not found, or never created.
C3_UseRuntimeAlwaysExitsZero ==
    (pc = "done" /\ UsesRuntime) =>
        /\ calls = 1
        /\ childExec.args[Len(childExec.args)] = Command
        /\ outcome \in {"exit", "signal", "notfound", "noexec", "forkfail"}
        /\ exitCode = 0

\* A finished --use-runtime run whose command exited with code 1.
C3_Witness ==
    /\ pc = "done"
    /\ UsesRuntime
    /\ outcome = "exit"
    /\ WEXITSTATUS(sysret) = 1
    /\ exitCode = 0

\* C4: once runtime() has returned from a launch whose command terminated
\* normally with code N, what it returned is Exited(N).
C4_LaunchYieldsExited ==
    (launchResult # NoResult /\ outcome = "exit")
        => launchResult = Exited(WEXITSTATUS(status))

\* C5: once runtime() has returned from a launch whose executable was
\* missing or could not be spawned, what it returned is LaunchFailed.
C5_LaunchYieldsLaunchFailed ==
    (launchResult # NoResult /\ outcome \in {"notfound", "noexec", "forkfail"})
        => launchResult = LaunchFailed

\* C6: the command is never handed to a shell as one string.
C6_NeverThroughShell ==
    calls > 0 => ~IsShellInvocation(childExec)

\* C7 as stated: the stage of the launch changes only along
\* Idle -> Launching -> Running -> Exited or Failed, one stage at a time.
C7_StrictLifecycle ==
    [][Phase' # Phase => <<Phase, Phase'>> \in StrictSteps]_vars

\* C7 as amended: the stage changes only along Idle -> Launching -> Running
\* -> Exited or Failed, or from Launching straight to Failed when no child
\* could be created; a terminal stage and its exit code never change again;
\* and every launch that is started reaches a terminal stage.
C7_Lifecycle ==
    /\ [][/\ Phase' # Phase =>
                \/ <<Phase, Phase'>> \in StrictSteps
                \/ /\ <<Phase, Phase'>> = <<"Launching", "Failed">>
                   /\ outcome' = "forkfail"
          /\ Phase \in Terminal => (Phase' = Phase /\ PhaseCode' = PhaseCode)]_vars
    /\ (Phase = "Launching") ~> (Phase \in Terminal)

\* A finished run whose launch went through Running and ended in Exited(127).
C7_Witness ==
    /\ pc = "done"
    /\ Phase = "Exited"
    /\ PhaseCode = 127
    /\ child = "reaped"

\* C8: system() has been called only after the start message was printed,
\* and the stop message is printed and the program exits only when no child
\* is alive any more: it has terminated and been waited for, or was never
\* created.
C8_LaunchIsSynchronous ==
    /\ calls > 0 => (Len(out) >= 1 /\ out[1] = StartMsg)
    /\ child # "none" => Count(StartMsg) = 1
    /\ (UsesRuntime /\ (Count(StopMsg) > 0 \/ exitCode # NoExit)) =>
            \/ child = "reaped"
            \/ child = "none" /\ outcome = "forkfail"
    /\ pc \in {"returned", "mainret", "done"} => child \in {"none", "reaped"}

\* A finished run whose child was killed by a signal.
C8_Witness ==
    /\ pc = "done"
    /\ UsesRuntime
    /\ outcome = "signal"
    /\ child = "reaped"
    /\ out = <<StartMsg, StopMsg>>

\* C9: system() is called at most once in a run, and the end of the launch
\* is reported at most once.
C9_AtMostOneLaunch ==
    /\ calls <= 1
    /\ Count(StopMsg) <= 1
    /\ Count(StartMsg) <= 1

\* A finished run whose only launch failed to create the child.
C9_Witness ==
    /\ pc = "done"
    /\ calls = 1
    /\ outcome = "forkfail"
    /\ Count(StopMsg) = 1

\* C10: system() is called only in runs whose first argument is exactly
\* "--use-runtime", and in every such run that has finished; a finished run
\* with any other first argument but --help has printed nothing, called
\* nothing and exits 0; the output and exit code of a finished run depend
\* on the first argument only.
C10_OnlyFirstArgumentCounts ==
    /\ calls > 0 => UsesRuntime
    /\ pc = "done" =>
          /\ calls = (IF UsesRuntime THEN 1 ELSE 0)
          /\ exitCode = 0
          /\ args > 1 => out = OutFor(argv[1])
          /\ (args > 1 /\ argv[1] \notin {"--use-runtime", "--help"}) =>
                (out = <<>> /\ child = "none" /\ childExec = NoExec)

\* A finished run with an unrecognised first argument followed by
\* "--use-runtime".
C10_Witness ==
    /\ pc = "done"
    /\ argv = <<"--use-runtime2", "--use-runtime">>
    /\ out = <<>>
    /\ calls = 0

====
